---- MODULE Spec2Model ----
(***************************************************************************)
(* A model of cutekit/builder.py: flag aggregation, artifact paths, the    *)
(* edges link() writes to the ninja graph, and the build orchestrator with *)
(* the commands layered on it.                                             *)
(*                                                                         *)
(* Conventions.  A path (pathlib.Path) is the sequence of its segments; a  *)
(* component id is a relative path too ("a/b" is <<"a","b">>).  A string   *)
(* whose characters matter (a props key or value, a -D flag) is the        *)
(* sequence of its characters.  An optional value is a sequence of length  *)
(* 0 (None) or 1.                                                          *)
(***************************************************************************)
EXTENDS Integers, Sequences, FiniteSets, TLC

VARIABLES
    registry,    \* model.Registry: component id -> component
    pc,          \* position of the running command
    caller,      \* the command that was invoked and its arguments
    components,  \* build()'s `components` argument
    todo,        \* components all() has still to link
    graph,       \* edges written to build.ninja so far
    default,     \* the graph's default goal: <<>> or <<"all">>
    file,        \* build.ninja: "absent", "open" or "closed"
    genState,    \* gen(): "none", "running", "complete" or "failed"
    execCalls,   \* every shell.exec("ninja", ...) made: its goals and exit code
    products,    \* the Product list build() returned, once it returned
    returned,    \* whether build() returned to its caller
    err,         \* the exception that ended the command, if any
    environ,     \* os.environ entries runCmd set
    ran,         \* every shell.exec of a built artifact
    linkLog,     \* every link() call gen() made: the component and the outcome
    pairs,       \* path allocation: the (target, component) pairs given
    outs,        \* path allocation: outfile() of each pair
    props,       \* define aggregation: target.props, as (key, value) items
    cdefs        \* define aggregation: the result of aggregateCdefs

orchVars == <<registry, pc, caller, components, todo, graph, default, file,
              genState, execCalls, products, returned, err, environ, ran,
              linkLog>>
pathVars == <<pairs, outs>>
defVars == <<props, cdefs>>
vars == <<orchVars, pathVars, defVars>>

(***************************************************************************)
(* Bounds of the model.                                                    *)
(***************************************************************************)
MaxDeps == 3      \* length of a resolved dependency list
MaxReq == 2       \* length of an explicit component list given to build()
MaxDirLen == 3    \* segments of a target's builddir
MaxIdLen == 2     \* segments of a component id (path allocation)
MaxKeyLen == 2    \* characters of a props key or string value
MaxProps == 2     \* items of target.props

RECURSIVE SeqsUpTo(_, _)
SeqsUpTo(S, n) ==
    IF n = 0 THEN {<<>>}
    ELSE LET shorter == SeqsUpTo(S, n - 1)
         IN  shorter \cup {Append(s, x) : s \in shorter, x \in S}

Front(s) == SubSeq(s, 1, Len(s) - 1)
Last(s) == s[Len(s)]

Range(s) == {s[i] : i \in 1..Len(s)}

(***************************************************************************)
(* model.Kind, as far as builder.py tells kinds apart.                     *)
(***************************************************************************)
LIB == "lib"
EXE == "exe"
Kinds == {LIB, EXE}

(***************************************************************************)
(* Path allocation.                                                        *)
(***************************************************************************)
\* Path(target.builddir) / component.id / path
buildpath(target, component, path) == target.builddir \o component.id \o path

\* The segments of f"{dir}/{component.id}{suffix}": the id's own directories
\* come first, and the suffix is glued to the id's last segment.
IdFile(dir, id, suffix) == <<dir>> \o Front(id) \o <<Last(id) \o suffix>>

\* outfile() naming the artifact by the id's last segment only, outside the
\* component's own directory.
outfileBasename(target, component) ==
    IF component.type = LIB
    THEN target.builddir \o <<"lib", Last(component.id) \o ".a">>
    ELSE target.builddir \o <<"bin", Last(component.id) \o ".out">>

outfile(target, component) ==
    IF component.type = LIB
    THEN buildpath(target, component, IdFile("lib", component.id, ".a"))
    ELSE buildpath(target, component, IdFile("bin", component.id, ".out"))

(***************************************************************************)
(* Define aggregation.                                                     *)
(***************************************************************************)
\* A props value: bool, str, int, float (n.f), None or the empty list.
BoolVal(b) == [tag |-> "bool", b |-> b, s |-> <<>>, n |-> 0, f |-> 0]
StrVal(s) == [tag |-> "str", b |-> FALSE, s |-> s, n |-> 0, f |-> 0]
IntVal(n) == [tag |-> "int", b |-> FALSE, s |-> <<>>, n |-> n, f |-> 0]
FloatVal(n, f) == [tag |-> "float", b |-> FALSE, s |-> <<>>, n |-> n, f |-> f]
NoneVal == [tag |-> "none", b |-> FALSE, s |-> <<>>, n |-> 0, f |-> 0]
ListVal == [tag |-> "list", b |-> FALSE, s |-> <<>>, n |-> 0, f |-> 0]

AcceptedTags == {"bool", "str", "int", "float"}

DigitChar(d) == <<"0", "1", "2", "3", "4", "5", "6", "7", "8", "9">>[d + 1]

RECURSIVE Digits(_)
Digits(n) == IF n < 10 THEN <<DigitChar(n)>>
             ELSE Digits(n \div 10) \o <<DigitChar(n % 10)>>

\* str(v) for a value that is not a bool
pystr(v) ==
    CASE v.tag = "str" -> v.s
      [] v.tag = "int" -> Digits(v.n)
      [] v.tag = "float" -> Digits(v.n) \o <<".">> \o Digits(v.f)
      [] v.tag = "none" -> <<"N", "o", "n", "e">>
      [] v.tag = "list" -> <<"[", "]">>

\* str.lower() on one character
lower(c) ==
    CASE c = "A" -> "a"
      [] c = "B" -> "b"
      [] c = "N" -> "n"
      [] OTHER -> c

replace(s, old, new) == [i \in 1..Len(s) |-> IF s[i] = old THEN new ELSE s[i]]

sanatize(s) ==
    replace(replace(replace([i \in 1..Len(s) |-> lower(s[i])],
                            " ", "_"), "-", "_"), ".", "_")

DefPrefix == <<"-", "D", "_", "_", "c", "k", "_">>

\* The flags one (k, v) item of target.props adds to the set.
cdefsOfItem(k, v) ==
    IF v.tag = "bool"
    THEN IF v.b THEN {DefPrefix \o sanatize(k) \o <<"_", "_">>} ELSE {}
    ELSE {DefPrefix \o sanatize(k) \o <<"_">> \o sanatize(pystr(v)) \o <<"_", "_">>,
          DefPrefix \o sanatize(k) \o <<"_", "v", "a", "l", "u", "e", "=">> \o pystr(v)}

\* aggregateCdefs never raises: every value that is not a bool goes through str().
aggregateCdefs(p) == UNION {cdefsOfItem(k, p[k]) : k \in DOMAIN p}

(***************************************************************************)
(* The registry and the target the commands build for.                     *)
(*                                                                         *)
(* A component is [id, type, resolved, files, resfiles]: resolved is       *)
(* component.resolved[target.id].resolved; files lists the source files    *)
(* below the component's directory, each [dir, stem, ext] with dir         *)
(* relative to it; resfiles lists the files below its res directory, each  *)
(* a relative path.                                                        *)
(***************************************************************************)
TheTarget == [id |-> "t", builddir |-> <<"build", "t">>]

\* Tool.files of target.tools[rule]
toolFiles(target, rule) == <<<<"toolchain", rule>>>>

\* component.dirname() and component.subpath(p)
dirname(component) == <<"src">> \o component.id
subpath(component, p) == dirname(component) \o p

\* component.subdirs
subdirs(component) == {<<"sub">>}

\* registry.lookup(name, model.Component): None when no component has the id
lookup(reg, name) == IF name \in DOMAIN reg THEN <<reg[name]>> ELSE <<>>

\* The order registry.iterEnabled(target) yields components in.
IterOrder == <<<<"core">>, <<"app">>, <<"__tests__">>>>

iterEnabled(reg, target) ==
    LET here == SelectSeq(IterOrder, LAMBDA i : i \in DOMAIN reg)
    IN  [k \in 1..Len(here) |-> reg[here[k]]]

(***************************************************************************)
(* Compilation and resources.  An edge is what one w.build() call writes.  *)
(***************************************************************************)
Edge(out, rule, inputs, implicit, order_only) ==
    [out |-> out, rule |-> rule, inputs |-> inputs, implicit |-> implicit,
     order_only |-> order_only]

\* shell.find(dirs, wildcards, recusive=False): the files directly in the
\* component's directory or in one of its subdirs, whose suffix matches.
wilcard(component, exts) ==
    SelectSeq(component.files,
              LAMBDA f : f.ext \in exts /\ (f.dir = <<>> \/ f.dir \in subdirs(component)))

srcPath(component, f) == dirname(component) \o f.dir \o <<f.stem \o "." \o f.ext>>

\* buildpath(target, component, "obj") / rel.with_suffix(".o")
objPath(target, component, f) ==
    buildpath(target, component, <<"obj">>) \o f.dir \o <<f.stem \o ".o">>

\* compile(): the edges written, one per source; the objects are their outputs.
compile(target, component, rule, srcs) ==
    [i \in 1..Len(srcs) |->
        Edge(objPath(target, component, srcs[i]), rule,
             <<srcPath(component, srcs[i])>>, <<>>, toolFiles(target, rule))]

\* compileRes(): one cp edge per resource file
compileRes(target, component) ==
    [i \in 1..Len(component.resfiles) |->
        Edge(buildpath(target, component, <<"res">>) \o component.resfiles[i], "cp",
             <<subpath(component, <<"res">>) \o component.resfiles[i]>>, <<>>, <<>>)]

EdgeOuts(edges) == [i \in 1..Len(edges) |-> edges[i].out]

CExts == {"c"}
CxxExts == {"cpp", "cc", "cxx"}
AsExts == {"s", "asm", "S"}

(***************************************************************************)
(* Linking.                                                                *)
(***************************************************************************)
NoErr == [type |-> "none", what |-> "", id |-> <<>>]
Raise(type, what, id) == [type |-> type, what |-> what, id |-> id]

\* What a call gives back: a value, or the exception it raised.
Return(v) == [raised |-> FALSE, value |-> v, err |-> NoErr]
Raised(e) == [raised |-> TRUE, value |-> <<>>, err |-> e]

\* collectLibs() that skips what is not a library instead of raising
RECURSIVE collectLibsSkipping(_, _, _, _)
collectLibsSkipping(reg, target, component, rs) ==
    IF rs = <<>> THEN Return(<<>>)
    ELSE LET r == Head(rs)
             req == lookup(reg, r)
             rest == collectLibsSkipping(reg, target, component, Tail(rs))
         IN  IF req = <<>>
             THEN Raised(Raise("AssertionError", "", r))
             ELSE IF r = component.id \/ req[1].type # LIB
             THEN rest
             ELSE IF rest.raised THEN rest
                  ELSE Return(<<outfile(target, req[1])>> \o rest.value)

\* collectLibs() that appends at the front
RECURSIVE collectLibsReversed(_, _, _, _)
collectLibsReversed(reg, target, component, rs) ==
    IF rs = <<>> THEN Return(<<>>)
    ELSE LET r == Head(rs)
             req == lookup(reg, r)
         IN  IF req = <<>>
             THEN Raised(Raise("AssertionError", "", r))
             ELSE IF r = component.id
             THEN collectLibsReversed(reg, target, component, Tail(rs))
             ELSE IF req[1].type # LIB
             THEN Raised(Raise("RuntimeError", "is not a library", r))
             ELSE LET rest == collectLibsReversed(reg, target, component, Tail(rs))
                  IN  IF rest.raised THEN rest
                      ELSE Return(rest.value \o <<outfile(target, req[1])>>)

\* collectLibs over the ids rs still to visit: the loop of lines 107-115.
\* The first id that raises ends the loop, and nothing is returned.
RECURSIVE collectLibsFrom(_, _, _, _)
collectLibsFrom(reg, target, component, rs) ==
    IF rs = <<>> THEN Return(<<>>)
    ELSE LET r == Head(rs)
             req == lookup(reg, r)
         IN  IF req = <<>>
             THEN Raised(Raise("AssertionError", "", r))
             ELSE IF r = component.id
             THEN collectLibsFrom(reg, target, component, Tail(rs))
             ELSE IF req[1].type # LIB
             THEN Raised(Raise("RuntimeError", "is not a library", r))
             ELSE LET rest == collectLibsFrom(reg, target, component, Tail(rs))
                  IN  IF rest.raised THEN rest
                      ELSE Return(<<outfile(target, req[1])>> \o rest.value)

collectLibs(reg, target, component) ==
    collectLibsFrom(reg, target, component, component.resolved)

\* The edges link() writes before it collects the libraries: the objects of
\* the three buckets, then the resources.
objEdges(target, component) ==
    compile(target, component, "cc", wilcard(component, CExts))
    \o compile(target, component, "cxx", wilcard(component, CxxExts))
    \o compile(target, component, "as", wilcard(component, AsExts))

\* link(): the edges it writes, in order, and its result.  When collectLibs
\* raises, the object and resource edges are already written and the
\* terminal edge is not.
link(reg, target, component) ==
    LET out == outfile(target, component)
        objs == EdgeOuts(objEdges(target, component))
        res == compileRes(target, component)
        libs == collectLibs(reg, target, component)
        written == objEdges(target, component) \o res
    IN  IF libs.raised
        THEN [raised |-> TRUE, err |-> libs.err, edges |-> written, out |-> <<>>]
        ELSE [raised |-> FALSE, err |-> NoErr, out |-> out,
              edges |-> Append(written,
                  IF component.type = LIB
                  THEN Edge(out, "ar", objs, EdgeOuts(res), <<>>)
                  ELSE Edge(out, "ld", objs \o libs.value, EdgeOuts(res), <<>>))]

(***************************************************************************)
(* The inputs: registries, file listings, requests.                        *)
(***************************************************************************)
SrcFile(dir, stem, ext) == [dir |-> dir, stem |-> stem, ext |-> ext]

\* Listings of a component's directory tree.  "other" is not one of the
\* component's subdirs.
FileListings ==
    { <<>>,
      <<SrcFile(<<>>, "a", "c")>>,
      <<SrcFile(<<>>, "a", "c"), SrcFile(<<>>, "a", "cpp")>>,
      <<SrcFile(<<>>, "main", "cc"), SrcFile(<<"sub">>, "a", "c"),
        SrcFile(<<>>, "boot", "S"), SrcFile(<<"other">>, "x", "c")>> }

ResListings == { <<>>, <<<<"logo.png">>, <<"img", "logo.png">>>> }

\* The layouts the commands are run on.
Layouts ==
    { [files |-> <<SrcFile(<<>>, "a", "c"), SrcFile(<<>>, "a", "cpp")>>,
       resfiles |-> <<>>],
      [files |-> <<SrcFile(<<>>, "main", "cc"), SrcFile(<<"sub">>, "a", "c"),
                   SrcFile(<<>>, "boot", "S"), SrcFile(<<"other">>, "x", "c")>>,
       resfiles |-> <<<<"logo.png">>, <<"img", "logo.png">>>>] }

Component(id, type, resolved, files, resfiles) ==
    [id |-> id, type |-> type, resolved |-> resolved, files |-> files,
     resfiles |-> resfiles]

CmdIds == {<<"core">>, <<"__tests__">>}
LinkIds == {<<"core">>, <<"app">>, <<"__tests__">>}

\* Registries of components P in which every resolved id is a component of
\* the registry, as model.Resolver leaves them.
RegistriesOver(P, listings) ==
    {[i \in P |-> Component(i, a[i].type, a[i].resolved, a[i].lay.files,
                            a[i].lay.resfiles)] :
        a \in [P -> [type : Kinds, resolved : SeqsUpTo(P, MaxDeps), lay : listings]]}

\* The registries the commands run on: one layout for all components.
CmdRegistries(ids) ==
    UNION {RegistriesOver(P, {lay}) : P \in SUBSET ids, lay \in Layouts}

\* A component name on the command line, or none.
Names == {<<n>> : n \in CmdIds \cup {<<"nosuch">>}} \cup {<<>>}

ExitCodes == {0, 1}

ComponentsNone == [tag |-> "none", items |-> <<>>]
ComponentsOne(c) == [tag |-> "one", items |-> <<c>>]
ComponentsList(cs) == [tag |-> "list", items |-> cs]

NoCaller == [cmd |-> "none", spec |-> <<>>, debug |-> FALSE]

OrchIdle ==
    /\ pc = "idle"
    /\ caller = NoCaller
    /\ components = ComponentsNone
    /\ todo = <<>>
    /\ graph = <<>>
    /\ default = <<>>
    /\ file = "absent"
    /\ genState = "none"
    /\ execCalls = <<>>
    /\ products = <<>>
    /\ returned = FALSE
    /\ err = NoErr
    /\ environ = <<>>
    /\ ran = <<>>
    /\ linkLog = <<>>

PathIdle == pairs = <<>> /\ outs = <<>>
DefIdle == props = <<>> /\ cdefs = <<>>

Init ==
    /\ registry \in CmdRegistries(CmdIds)
    /\ OrchIdle
    /\ PathIdle
    /\ DefIdle

(***************************************************************************)
(* build() and the commands.                                               *)
(***************************************************************************)
\* shell.exec(): raises when the process exits non-zero.
shellExec(what, code) ==
    IF code = 0 THEN Return(<<>>)
    ELSE Raised(Raise("RuntimeError", what \o ": process exited non-zero", <<>>))

\* What ninja builds when asked for `goals`: the default goal when none is named.
ninjaGoals(goals, dflt) == IF goals = <<>> THEN dflt ELSE goals

Product(target, component) ==
    [path |-> outfile(target, component), target |-> target.id,
     component |-> component.id]

\* The exception leaves the command: nothing further runs.
Abort(e) ==
    /\ err' = e
    /\ pc' = "aborted"

\* build(), lines 203-207 up to the call of gen(): the directory is made, the
\* file is opened, and gen() starts on the enabled components.
buildEnter(who, arg) ==
    /\ caller' = who
    /\ components' = arg
    /\ file' = "open"
    /\ genState' = "running"
    /\ todo' = iterEnabled(registry, TheTarget)
    /\ pc' = "gen"
    /\ UNCHANGED <<registry, graph, default, execCalls, products, returned, err,
                   environ, ran, linkLog>>

abortEnter(who, e) ==
    /\ caller' = who
    /\ Abort(e)
    /\ UNCHANGED <<registry, components, todo, graph, default, file, genState,
                   execCalls, products, returned, environ, ran, linkLog>>

\* buildCmd(): the lookup's result goes to build() unchecked, so a name the
\* registry does not know reaches build() as None.
buildCmd(spec) ==
    /\ pc = "idle"
    /\ LET who == [cmd |-> "build", spec |-> spec, debug |-> FALSE]
           component == IF spec = <<>> THEN <<>> ELSE lookup(registry, spec[1])
       IN  IF spec = <<>>
           THEN abortEnter(who, Raise("RuntimeError", "No component specified", <<>>))
           ELSE IF component = <<>>
           THEN buildEnter(who, ComponentsNone)
           ELSE buildEnter(who, ComponentsOne(component[1]))
    /\ UNCHANGED <<pathVars, defVars>>

\* runCmd(), lines 249-262 up to the call of build().
runCmd(cmd, spec, debug) ==
    /\ pc = "idle"
    /\ LET who == [cmd |-> cmd, spec |-> spec, debug |-> debug]
           component == IF spec = <<>> THEN <<>> ELSE lookup(registry, spec[1])
       IN  IF spec = <<>>
           THEN abortEnter(who, Raise("RuntimeError", "No component specified", <<>>))
           ELSE IF component = <<>>
           THEN abortEnter(who, Raise("RuntimeError", "not found", spec[1]))
           ELSE buildEnter(who, ComponentsOne(component[1]))
    /\ UNCHANGED <<pathVars, defVars>>

\* testCmd(): run the component named __tests__
testCmd(debug) == runCmd("test", <<<<"__tests__">>>>, debug)

\* debugCmd(): run with the debug option set
debugCmd(spec) == runCmd("debug", spec, TRUE)

\* build() called by another module, with any `components` argument.
buildCall(arg) ==
    /\ pc = "idle"
    /\ buildEnter([cmd |-> "api", spec |-> <<>>, debug |-> FALSE], arg)
    /\ UNCHANGED <<pathVars, defVars>>

\* What build() may be given: None, one component, or a list of components.
BuildArgs ==
    {ComponentsNone}
    \cup {ComponentsOne(registry[i]) : i \in DOMAIN registry}
    \cup {ComponentsList([k \in 1..Len(ids) |-> registry[ids[k]]]) :
            ids \in SeqsUpTo(DOMAIN registry, MaxReq)}

\* all(), one turn of the loop of lines 151-152: link() the next component.
\* Its edges reach the file; when it raises, the exception leaves gen(), the
\* with-block closes the file as it stands, and build() and the command end.
allLink ==
    /\ pc = "gen"
    /\ todo # <<>>
    /\ LET c == Head(todo)
           r == link(registry, TheTarget, c)
       IN  /\ graph' = graph \o r.edges
           /\ linkLog' = Append(linkLog, [component |-> c.id, raised |-> r.raised,
                                          err |-> r.err, out |-> r.out])
           /\ todo' = Tail(todo)
           /\ IF r.raised
              THEN /\ genState' = "failed"
                   /\ file' = "closed"
                   /\ Abort(r.err)
              ELSE UNCHANGED <<genState, file, err, pc>>
    /\ UNCHANGED <<registry, caller, components, default, execCalls, products,
                   returned, environ, ran, pathVars, defVars>>

\* The components build() makes Products of (lines 209-214).
requested(arg, reg, target) ==
    IF arg.tag = "none" THEN iterEnabled(reg, target) ELSE arg.items

\* build() that always names the products' paths as goals
ninjaArgsAlways(arg, prods) == [i \in 1..Len(prods) |-> prods[i].path]

\* The goals build() names on ninja's command line (lines 226-230).
ninjaArgs(arg, prods) ==
    IF arg.tag = "none" THEN <<>> ELSE [i \in 1..Len(prods) |-> prods[i].path]

\* The outputs link() returned to all(), in order.
allOuts == LET ok == SelectSeq(linkLog, LAMBDA l : ~l.raised)
           IN  [i \in 1..Len(ok) |-> ok[i].out]

\* build() that calls ninja inside the with-block, the file still open
allDoneFileOpen ==
    /\ pc = "gen"
    /\ todo = <<>>
    /\ graph' = Append(graph, Edge(<<"all">>, "phony", allOuts, <<>>, <<>>))
    /\ default' = <<<<"all">>>>
    /\ genState' = "complete"
    /\ products' = LET cs == requested(components, registry, TheTarget)
                   IN  [i \in 1..Len(cs) |-> Product(TheTarget, cs[i])]
    /\ pc' = "exec"
    /\ UNCHANGED <<registry, caller, components, todo, execCalls, returned, err,
                   environ, ran, linkLog, file, pathVars, defVars>>

\* all(), lines 153-154, the return of gen(), the close of the file, and
\* build() up to the call of ninja (lines 209-226).
allDone ==
    /\ pc = "gen"
    /\ todo = <<>>
    /\ graph' = Append(graph, Edge(<<"all">>, "phony", allOuts, <<>>, <<>>))
    /\ default' = <<<<"all">>>>
    /\ genState' = "complete"
    /\ file' = "closed"
    /\ products' = LET cs == requested(components, registry, TheTarget)
                   IN  [i \in 1..Len(cs) |-> Product(TheTarget, cs[i])]
    /\ pc' = "exec"
    /\ UNCHANGED <<registry, caller, components, todo, execCalls, returned, err,
                   environ, ran, linkLog, pathVars, defVars>>

\* build() that does not look at how ninja ended
execNinjaSwallow(code) ==
    /\ pc = "exec"
    /\ execCalls' = Append(execCalls, [goals |-> ninjaArgs(components, products),
                                       code |-> code])
    /\ returned' = TRUE
    /\ IF caller.cmd \in {"run", "test", "debug"} THEN pc' = "run" ELSE pc' = "done"
    /\ UNCHANGED <<registry, caller, components, todo, graph, default, file,
                   genState, products, ran, linkLog, err, environ, pathVars, defVars>>

\* build(), lines 227-231: ninja runs, once.  When it fails the exception
\* leaves build() and the command; else build() returns the products and the
\* command goes on: buildCmd takes the first product (line 245), runCmd
\* takes it and sets the environment (lines 262-266).
execNinja(code) ==
    /\ pc = "exec"
    /\ execCalls' = Append(execCalls, [goals |-> ninjaArgs(components, products),
                                       code |-> code])
    /\ LET r == shellExec("ninja", code)
       IN  IF r.raised
           THEN /\ Abort(r.err)
                /\ UNCHANGED <<returned, environ>>
           ELSE /\ returned' = TRUE
                /\ IF caller.cmd = "api"
                   THEN pc' = "done" /\ UNCHANGED <<err, environ>>
                   ELSE IF products = <<>>
                   THEN Abort(Raise("IndexError", "list index out of range", <<>>))
                        /\ UNCHANGED environ
                   ELSE IF caller.cmd = "build"
                   THEN pc' = "done" /\ UNCHANGED <<err, environ>>
                   ELSE /\ environ' = <<[CK_TARGET |-> TheTarget.id,
                                         CK_COMPONENT |-> products[1].component,
                                         CK_BUILDDIR |-> TheTarget.builddir]>>
                        /\ pc' = "run"
                        /\ UNCHANGED err
    /\ UNCHANGED <<registry, caller, components, todo, graph, default, file,
                   genState, products, ran, linkLog, pathVars, defVars>>

\* runCmd(), line 268: the artifact runs, under lldb when debugging.
execArtifact(code) ==
    /\ pc = "run"
    /\ ran' = Append(ran, [argv |-> (IF caller.debug THEN <<<<"lldb">>, <<"-o">>, <<"run">>>>
                                     ELSE <<>>) \o <<products[1].path>>,
                           code |-> code])
    /\ LET r == shellExec("artifact", code)
       IN  IF r.raised THEN Abort(r.err) ELSE pc' = "done" /\ UNCHANGED err
    /\ UNCHANGED <<registry, caller, components, todo, graph, default, file,
                   genState, execCalls, products, returned, environ, linkLog,
                   pathVars, defVars>>

Next ==
    \/ \E spec \in Names : buildCmd(spec)
    \/ \E spec \in Names, debug \in BOOLEAN : runCmd("run", spec, debug)
    \/ \E debug \in BOOLEAN : testCmd(debug)
    \/ \E spec \in Names : debugCmd(spec)
    \/ \E arg \in BuildArgs : buildCall(arg)
    \/ allLink
    \/ allDone
    \/ \E code \in ExitCodes : execNinja(code)
    \/ \E code \in ExitCodes : execArtifact(code)

Spec == Init /\ [][Next]_vars

(***************************************************************************)
(* link() on its own: one component of a registry of three, linked into an *)
(* empty graph.  The other components have no dependencies of their own:   *)
(* link() reads only their kind and id.                                    *)
(***************************************************************************)
LinkRegistries(ids) ==
    {[i \in ids |->
        IF i = c THEN Component(i, ty[i], rs, fs, res)
        ELSE Component(i, ty[i], <<>>, <<>>, <<>>)] :
     c \in ids, ty \in [ids -> Kinds], rs \in SeqsUpTo(ids, MaxDeps),
     fs \in FileListings, res \in ResListings}

InitLink ==
    /\ registry \in LinkRegistries(LinkIds)
    /\ \E c \in LinkIds : todo = <<registry[c]>>
    /\ pc = "gen"
    /\ caller = [cmd |-> "api", spec |-> <<>>, debug |-> FALSE]
    /\ components = ComponentsNone
    /\ graph = <<>>
    /\ default = <<>>
    /\ file = "open"
    /\ genState = "running"
    /\ execCalls = <<>>
    /\ products = <<>>
    /\ returned = FALSE
    /\ err = NoErr
    /\ environ = <<>>
    /\ ran = <<>>
    /\ linkLog = <<>>
    /\ PathIdle
    /\ DefIdle

NextLink == allLink

SpecLink == InitLink /\ [][NextLink]_vars

(***************************************************************************)
(* outfile() on two (target, component) pairs.  A target is [id, builddir] *)
(* and a component [id, type]: outfile() reads nothing else.               *)
(***************************************************************************)
BuildDirs == {<<"b">> \o d : d \in SeqsUpTo({"b", "lib"}, MaxDirLen - 1)}
PathIds == SeqsUpTo({"lib", "x"}, MaxIdLen) \ {<<>>}
PathTargets == [id : {"t", "u"}, builddir : BuildDirs]
PathComponents == [id : PathIds, type : Kinds]

\* Two pairs; a target has one builddir and a component one kind.
PathPairs(targets, comps) ==
    {<<[target |-> ta, component |-> ca], [target |-> tb, component |-> cb]>> :
        ta \in {t \in targets : t.id = "t"}, tb \in targets,
        ca \in comps, cb \in comps}

InitPath ==
    /\ pairs \in {p \in PathPairs(PathTargets, PathComponents) :
                    /\ p[1].target.id = p[2].target.id => p[1].target = p[2].target
                    /\ p[1].component.id = p[2].component.id
                          => p[1].component = p[2].component}
    /\ outs = <<>>
    /\ registry = <<>>
    /\ OrchIdle
    /\ DefIdle

allocate ==
    /\ outs = <<>>
    /\ pairs # <<>>
    /\ outs' = [i \in 1..Len(pairs) |-> outfile(pairs[i].target, pairs[i].component)]
    /\ UNCHANGED <<pairs, orchVars, defVars>>

NextPath == allocate

SpecPath == InitPath /\ [][NextPath]_vars

(***************************************************************************)
(* aggregateCdefs() on a target's props.                                   *)
(***************************************************************************)
KeyChars == {"a", "B", "-", " "}
ValChars == {"B", "."}
PropKeys == SeqsUpTo(KeyChars, MaxKeyLen) \ {<<>>}
PropValues ==
    {BoolVal(b) : b \in BOOLEAN}
    \cup {StrVal(s) : s \in SeqsUpTo(ValChars, MaxKeyLen)}
    \cup {IntVal(n) : n \in {0, 12}}
    \cup {FloatVal(1, 5), NoneVal, ListVal}

\* The dicts of at most n items with keys among `keys`.
PropsDicts(keys, n) ==
    UNION {[K -> PropValues] : K \in {Range(ks) : ks \in SeqsUpTo(keys, n)}}

InitDefs ==
    /\ props \in PropsDicts(PropKeys, MaxProps)
    /\ cdefs = <<>>
    /\ registry = <<>>
    /\ OrchIdle
    /\ PathIdle

aggregate ==
    /\ cdefs = <<>>
    /\ cdefs' = <<Return(aggregateCdefs(props))>>
    /\ UNCHANGED <<props, orchVars, pathVars>>

NextDefs == aggregate

SpecDefs == InitDefs /\ [][NextDefs]_vars

(***************************************************************************)
(* The claims.                                                             *)
(***************************************************************************)
\* The ids of c's resolved list, other than its own, that are not libraries.
NonLibDeps(c) ==
    SelectSeq(c.resolved, LAMBDA r : r # c.id /\ registry[r].type # LIB)

\* The edges of the graph whose output is c's final artifact.
TerminalEdges(c) ==
    SelectSeq(graph, LAMBDA e : e.out = outfile(TheTarget, c))

\* C1: when a component's resolved list holds an id, not its own, of a
\* component that is not a library, link() raises the error naming such an id
\* (the first of them in the list), whatever the component's own kind, no
\* edge producing the component's final artifact is in the graph, and
\* collectLibs hands back no list.
C1_DependencyKindValidation ==
    \A k \in 1..Len(linkLog) :
        LET l == linkLog[k]
            c == registry[l.component]
            libs == collectLibs(registry, TheTarget, c)
        IN  NonLibDeps(c) # <<>> =>
                /\ l.raised
                /\ l.err = Raise("RuntimeError", "is not a library", NonLibDeps(c)[1])
                /\ l.out = <<>>
                /\ TerminalEdges(c) = <<>>
                /\ \A i \in 1..Len(graph) : graph[i].rule \notin {"ar", "ld"}
                /\ libs.raised /\ libs.value = <<>>

\* C1 witness: a library with sources whose list names an executable was
\* linked: its object edges are written and link() raised.
C1_Witness ==
    /\ Len(linkLog) = 1
    /\ registry[linkLog[1].component].type = LIB
    /\ NonLibDeps(registry[linkLog[1].component]) # <<>>
    /\ linkLog[1].raised
    /\ graph # <<>>

\* The object files and resource outputs among the edges written.
ObjOuts == EdgeOuts(SelectSeq(graph, LAMBDA e : e.rule \in {"cc", "cxx", "as"}))
ResOuts == EdgeOuts(SelectSeq(graph, LAMBDA e : e.rule = "cp"))

\* The final artifacts of c's resolved ids other than its own, in order.
DepArtifacts(c) ==
    LET deps == SelectSeq(c.resolved, LAMBDA r : r # c.id)
    IN  [i \in 1..Len(deps) |-> outfile(TheTarget, registry[deps[i]])]

\* C9: a link() that succeeded wrote exactly one edge producing the
\* component's final artifact, as the last edge: for a library an ar edge
\* whose inputs are the component's objects alone, for any other kind an ld
\* edge whose inputs are the objects followed by the artifact of every
\* resolved id but the component's own, in the resolver's order; the implicit
\* inputs are the component's resource outputs.
C9_TerminalEdgeShape ==
    (Len(linkLog) = 1 /\ ~linkLog[1].raised) =>
        LET c == registry[linkLog[1].component]
            t == TerminalEdges(c)
        IN  /\ Len(t) = 1
            /\ Last(graph) = t[1]
            /\ linkLog[1].out = outfile(TheTarget, c)
            /\ t[1].implicit = ResOuts
            /\ t[1].rule = IF c.type = LIB THEN "ar" ELSE "ld"
            /\ t[1].inputs = IF c.type = LIB THEN ObjOuts
                             ELSE ObjOuts \o DepArtifacts(c)
            /\ Len(ObjOuts) = Len(wilcard(c, CExts \cup CxxExts \cup AsExts))
            /\ Len(ResOuts) = Len(c.resfiles)

\* C9 witness: an executable with objects and resources, whose list names
\* itself and two different libraries, was linked.
C9_Witness ==
    /\ Len(linkLog) = 1
    /\ ~linkLog[1].raised
    /\ LET c == registry[linkLog[1].component]
       IN  /\ c.type = EXE
           /\ c.id \in Range(c.resolved)
           /\ Cardinality(Range(DepArtifacts(c))) = 2
           /\ ObjOuts # <<>>
           /\ ResOuts # <<>>

\* C8: in the graph gen() produced no two edges have the same output; so the
\* objects of two different sources of a component differ.
C8_CollisionFreeOutputs ==
    genState = "complete" =>
        \A i, j \in 1..Len(graph) : i # j => graph[i].out # graph[j].out

\* The products build() makes of the components cs, in order.
ProductsOf(cs) ==
    [i \in 1..Len(cs) |->
        [path |-> outfile(TheTarget, cs[i]), target |-> TheTarget.id,
         component |-> cs[i].id]]

\* The edges of the graph whose output is the aggregate goal.
AllEdges == SelectSeq(graph, LAMBDA e : e.out = <<"all">>)

\* C3: build() given no component returns one Product per enabled component,
\* with path outfile(target, component), after running ninja once with no
\* goal named; the graph's default goal is the phony edge "all", whose inputs
\* are the final artifacts of the enabled components, so that is what ninja
\* built.
C3_DefaultFullBuild ==
    (returned /\ components.tag = "none") =>
        LET enabled == iterEnabled(registry, TheTarget)
        IN  /\ products = ProductsOf(enabled)
            /\ Len(execCalls) = 1
            /\ execCalls[1].goals = <<>>
            /\ execCalls[1].code = 0
            /\ default = <<<<"all">>>>
            /\ ninjaGoals(execCalls[1].goals, default) = <<<<"all">>>>
            /\ Len(AllEdges) = 1
            /\ AllEdges[1].rule = "phony"
            /\ AllEdges[1].inputs =
                   [i \in 1..Len(enabled) |-> outfile(TheTarget, enabled[i])]

\* C3 witness: build(target, registry) returned with two components enabled.
C3_Witness ==
    /\ returned
    /\ caller.cmd = "api"
    /\ components.tag = "none"
    /\ Len(products) = 2

\* C4: build() given one component or a list of any length has ninja build
\* exactly the final artifacts of the components given, never the aggregate
\* goal, and returns one Product per component given, in the order given.
C4_ScopedBuild ==
    (caller.cmd = "api" /\ components.tag \in {"one", "list"}) =>
        /\ \A k \in 1..Len(execCalls) :
              LET built == ninjaGoals(execCalls[k].goals, default)
              IN  /\ Range(built) = {outfile(TheTarget, c) : c \in Range(components.items)}
                  /\ <<"all">> \notin Range(built)
        /\ returned => products = ProductsOf(components.items)

\* C5: ninja runs at most once per build(); when it exits non-zero build()
\* raises instead of returning the products, the command ends there, and
\* the artifact is never run.
C5_ExecutorFailurePropagates ==
    /\ Len(execCalls) <= 1
    /\ (execCalls # <<>> /\ execCalls[1].code # 0) =>
          /\ ~returned
          /\ pc = "aborted"
          /\ err.type = "RuntimeError"
          /\ ran = <<>>
          /\ environ = <<>>

\* C5 witness: the test command's build failed in ninja.
C5_Witness ==
    /\ caller.cmd = "test"
    /\ execCalls # <<>>
    /\ execCalls[1].code # 0
    /\ pc = "aborted"

\* C6: a command given a name the registry does not know (build, run, debug,
\* test) never runs ninja, and ends with the error that the component was
\* not found.
C6_ComponentNotFound ==
    (/\ caller.cmd \in {"build", "run", "debug", "test"}
     /\ caller.spec # <<>>
     /\ lookup(registry, caller.spec[1]) = <<>>) =>
        /\ execCalls = <<>>
        /\ pc \in {"done", "aborted"} =>
              /\ pc = "aborted"
              /\ err = Raise("RuntimeError", "not found", caller.spec[1])

\* C10: ninja is run only once gen() has completed and build.ninja is
\* closed, the aggregate edge being the last one written; when gen() fails
\* the file is closed as it stands, ninja is never run and build() returns
\* nothing.
C10_WriteBeforeRun ==
    /\ execCalls # <<>> =>
          /\ genState = "complete"
          /\ file = "closed"
          /\ todo = <<>>
          /\ Last(graph).out = <<"all">>
    /\ pc = "exec" => (genState = "complete" /\ file = "closed")
    /\ genState = "failed" =>
          /\ execCalls = <<>>
          /\ ~returned
          /\ products = <<>>
          /\ pc = "aborted"
          /\ file = "closed"
          /\ default = <<>>
          /\ AllEdges = <<>>

\* C10 witness: link() raised for the second component, so the closed file
\* holds the edges of the first alone.
C10_Witness ==
    /\ genState = "failed"
    /\ Len(linkLog) = 2
    /\ ~linkLog[1].raised
    /\ graph # <<>>
    /\ file = "closed"

\* C2: the final artifact paths of two different (target, component) pairs
\* differ.
C2_PathUniqueness ==
    (outs # <<>> /\ <<pairs[1].target.id, pairs[1].component.id>>
                       # <<pairs[2].target.id, pairs[2].component.id>>) =>
        outs[1] # outs[2]

IsPrefix(s, t) == Len(s) <= Len(t) /\ SubSeq(t, 1, Len(s)) = s

\* Two targets' output directories are apart: neither is the other or lies
\* below it.
Apart(ta, tb) ==
    ~IsPrefix(ta.builddir, tb.builddir) /\ ~IsPrefix(tb.builddir, ta.builddir)

\* C2 as amended: the final artifact paths of two different (target,
\* component) pairs differ when the pairs are of one target, or of two
\* targets whose build directories are apart.
C2_PathUniquenessApart ==
    (/\ outs # <<>>
     /\ <<pairs[1].target.id, pairs[1].component.id>>
           # <<pairs[2].target.id, pairs[2].component.id>>
     /\ (pairs[1].target.id # pairs[2].target.id
            => Apart(pairs[1].target, pairs[2].target))) =>
        outs[1] # outs[2]

\* C2 witness: two components of one target, one id the end of the other,
\* and their paths computed.
C2_Witness ==
    /\ outs # <<>>
    /\ pairs[1].target = pairs[2].target
    /\ pairs[1].component.id = <<"lib">>
    /\ pairs[2].component.id = <<"lib", "lib">>
    /\ pairs[1].component.type = pairs[2].component.type

\* C7: aggregateCdefs raises for a props value that is not a bool, a string
\* or a number; otherwise true gives one flag, false none, and a string or
\* a number two.
C7_PropsTypeRestriction ==
    cdefs # <<>> =>
        IF \E k \in DOMAIN props : props[k].tag \notin AcceptedTags
        THEN cdefs[1].raised
        ELSE /\ ~cdefs[1].raised
             /\ \A k \in DOMAIN props :
                   Cardinality(cdefsOfItem(k, props[k])) =
                       IF props[k].tag = "bool"
                       THEN (IF props[k].b THEN 1 ELSE 0)
                       ELSE 2
             /\ cdefs[1].value = UNION {cdefsOfItem(k, props[k]) : k \in DOMAIN props}

====
